---------------------------- MODULE Spec2Model ----------------------------
(***************************************************************************)
(* A model of siddjain/datastore-writer: the buffered DatastoreWriter      *)
(* (src/src/DatastoreWriter.ts) and the BulkLoader pipeline that feeds it  *)
(* from a line source (src/src/BulkLoader.ts).                             *)
(*                                                                         *)
(* One action is one cooperative turn of the JavaScript event loop: the    *)
(* synchronous code of a call or of an event handler together with the     *)
(* promise reactions (microtasks) it leaves behind.  The one reaction      *)
(* kept as a step of its own is the continuation of ready() in             *)
(* BulkLoader.#waitForWriter; every other pipeline step waits for it, as    *)
(* microtasks run before the next event.                                   *)
(*                                                                         *)
(* Entities are opaque to the writer; they are numbered in the order in    *)
(* which they are produced, so that order and batching can be observed.    *)
(* The Sink (datastore.insert / datastore.upsert) is the environment: a    *)
(* started call completes later, successfully or with a failure.           *)
(***************************************************************************)
EXTENDS Integers, Sequences, FiniteSets

\* ------------------------------------------------------------------ bounds
MaxBufferSize == 2     \* buffer_size ranges over 1..MaxBufferSize
MaxConcurrent == 2     \* max_concurrent_requests ranges over 1..MaxConcurrent
MaxAdds       == 3     \* add() calls made by a free caller of the writer
MaxFlushCalls == 2     \* explicit flush() calls made by a free caller
MaxReadyCalls == 2     \* ready() calls made by a free caller
MaxTime       == 1     \* ticks of the hrtime clock
MaxLines      == 5     \* lines held by the pipeline's source
MaxLimit      == 2     \* num_lines ranges over 0..MaxLimit (0: no limit)

VARIABLES
  \* DatastoreWriter
  bufferSize,            \* #bufferSize
  maxConcurrentRequests, \* #maxConcurrentRequests
  entities,              \* #entities
  bufferCount,           \* #bufferCount
  concurrentRequests,    \* #concurrentRequests
  isBusy,                \* isBusy
  isTicking,             \* #isTicking
  t0,                    \* #t0
  elapsed,               \* elapsed
  requestCount,          \* requestCount
  idleListeners,         \* once('idle') listeners registered by ready()
  \* environment and observations
  now,                   \* hrtime.bigint()
  flushes,               \* one record per flush() call: its promise
  readys,                \* one record per ready() call: its promise
  signals,               \* 'busy' / 'idle' notifications, in order
  statsLog,              \* 'stats' notifications, in order
  errorLog,              \* 'error' notifications, in order
  sinkCalls,             \* batches handed to the Sink, in order of the calls
  added,                 \* entities passed to add(), in order of the calls
  \* BulkLoader
  srcLines,              \* number of lines the source holds
  srcPos,                \* lines delivered so far
  lrState,               \* the reader: none, flowing, paused, closed, ended,
                         \* failed
  nLines,                \* #nLines
  count,                 \* #count
  isPaused,              \* #isPaused
  waitingEntity,         \* entity captured by #waitForWriter (0: none)
  waitingReady,          \* the ready() call #waitForWriter waits on (0: none)
  settled,               \* load()'s promise: pending, resolved, rejected
  loadErr,               \* the error load()'s promise was rejected with
  resolveCalls,          \* calls of #resolve
  rejectCalls,           \* calls of #reject
  failedLines            \* lines whose conversion threw

wvars == <<bufferSize, maxConcurrentRequests, entities, bufferCount,
           concurrentRequests, isBusy, isTicking, t0, elapsed,
           requestCount, idleListeners>>
hvars == <<now, flushes, readys, signals, statsLog, errorLog, sinkCalls,
           added>>
pvars == <<srcLines, srcPos, lrState, nLines, count, isPaused, waitingEntity,
           waitingReady, settled, loadErr, resolveCalls, rejectCalls,
           failedLines>>
vars  == <<wvars, hvars, pvars>>

\* --------------------------------------------------------- DatastoreWriter

\* (mutant) the automatic flush comes one entity late
AutoFlushDue_Late(bc) == bc % (bufferSize + 1) = 0

\* add(): the append counter is a multiple of the buffer size
AutoFlushDue(bc) == bc % bufferSize = 0

\* (mutant) the emptiness test of flush() lets an empty batch through
HasEntities_Always(foo) == Len(foo) >= 0

\* flush(): the batch taken from the buffer holds something
HasEntities(foo) == Len(foo) > 0

\* (mutant) the maximum test of flush() lets one request too many through
ExceedsMax_OffByOne(cr) == cr > maxConcurrentRequests + 1

\* flush(): the incremented count is over the maximum
ExceedsMax(cr) == cr > maxConcurrentRequests

\* (mutant) the writer turns busy one request late
BusyFires_Late(busy, cr) == ~busy /\ cr = maxConcurrentRequests + 1

\* #changeStateToBusy: the guard under which 'busy' is emitted
BusyFires(busy, cr) == ~busy /\ cr = maxConcurrentRequests

\* (mutant) 'idle' is emitted although the count is still at the maximum
IdleFires_AtMax(busy, cr) == busy /\ cr <= maxConcurrentRequests

\* #changeStateToIdle: the guard under which 'idle' is emitted
IdleFires(busy, cr) == busy /\ cr < maxConcurrentRequests

\* #startTimer: assert.ok(!this.#isTicking)
StartTimerOk(ticking) == ~ticking

\* #endTimer: assert.ok(this.#isTicking)
EndTimerOk(ticking) == ticking

\* (mutant) ready() never waits
ReadyWaits_Never(busy) == FALSE

\* ready(): the promise waits for 'idle' instead of resolving at once
ReadyWaits(busy) == busy

\* (mutant) flush() makes its Sink call without the two guards before it
flushOutcome_Unguarded(cr, ticking) == "started"

\* flush() of a non-empty batch, from the increment to the Sink call: cr is
\* the incremented count.  "exceeded": the throw on the maximum, before
\* requestCount and the busy state are touched; "assert": the AssertionError
\* of #startTimer, after them; "started": the Sink call is made.
flushOutcome(cr, ticking) ==
  IF ExceedsMax(cr) THEN "exceeded"
  ELSE IF ~StartTimerOk(ticking) THEN "assert"
  ELSE "started"

\* The variables flush() may change besides entities and flushes.
fvars == <<concurrentRequests, requestCount, isBusy, isTicking, t0, signals,
           sinkCalls, errorLog>>

FlushRecord(kind, state, err, size, call, req) ==
  [kind |-> kind, state |-> state, err |-> err, size |-> size,
   call |-> call, req |-> req]

\* flush() up to its await, on the buffer foo; kind is "auto" for the call
\* made by add(), whose rejection is re-emitted as 'error', and "explicit"
\* for a caller's.
flush(foo, kind) ==
  LET cr  == concurrentRequests + 1
      out == flushOutcome(cr, isTicking)
      toBusy == out # "exceeded" /\ BusyFires(isBusy, cr)
  IN /\ entities' = <<>>
     /\ IF ~HasEntities(foo)
        THEN /\ flushes' = Append(flushes,
                  FlushRecord(kind, "fulfilled", "none", Len(foo), 0, 0))
             /\ UNCHANGED fvars
        ELSE /\ concurrentRequests' = cr
             /\ requestCount' = IF out = "exceeded" THEN requestCount
                                ELSE requestCount + 1
             /\ isBusy' = IF toBusy THEN TRUE ELSE isBusy
             /\ signals' = IF toBusy THEN Append(signals, "busy") ELSE signals
             /\ isTicking' = IF out = "started" THEN TRUE ELSE isTicking
             /\ t0' = IF out = "started" THEN now ELSE t0
             /\ sinkCalls' = IF out = "started" THEN Append(sinkCalls, foo)
                             ELSE sinkCalls
             /\ flushes' = Append(flushes,
                  IF out = "started"
                  THEN FlushRecord(kind, "pending", "none", Len(foo),
                                   Len(sinkCalls) + 1, requestCount + 1)
                  ELSE FlushRecord(kind, "rejected", out, Len(foo), 0,
                                   IF out = "exceeded" THEN 0
                                   ELSE requestCount + 1))
             /\ errorLog' = IF kind = "auto" /\ out # "started"
                            THEN Append(errorLog, out) ELSE errorLog

\* add(entity)
add(entity) ==
  /\ bufferCount' = bufferCount + 1
  /\ added' = Append(added, entity)
  /\ IF AutoFlushDue(bufferCount + 1)
     THEN flush(Append(entities, entity), "auto")
     ELSE /\ entities' = Append(entities, entity)
          /\ UNCHANGED <<flushes, fvars>>

\* ready()
ready ==
  /\ readys' = Append(readys,
       [busyAtCall |-> isBusy,
        state      |-> IF ReadyWaits(isBusy) THEN "pending" ELSE "resolved",
        sigCall    |-> Len(signals),
        sigRes     |-> IF ReadyWaits(isBusy) THEN 0 ELSE Len(signals)])
  /\ idleListeners' = IF ReadyWaits(isBusy)
                      THEN idleListeners \cup {Len(readys) + 1}
                      ELSE idleListeners

\* The flushes whose Sink call has been started and has not completed.
InFlight == {i \in 1..Len(flushes) : flushes[i].state = "pending"}

\* flush() after its await, the Sink call of flush i having succeeded.
sinkSucceeded(i) ==
  LET cr     == concurrentRequests - 1
      timed  == EndTimerOk(isTicking)
      toIdle == timed /\ IdleFires(isBusy, cr)
      nano   == now - t0    \* #t1 - #t0, #t1 being the clock just read
  IN /\ flushes[i].state = "pending"
     /\ concurrentRequests' = cr
     /\ isTicking' = IF timed THEN FALSE ELSE isTicking
     /\ elapsed' = IF timed THEN elapsed + nano ELSE elapsed
     /\ statsLog' = IF timed
                    THEN Append(statsLog, [request_count |-> requestCount,
                                           elapsed |-> nano])
                    ELSE statsLog
     /\ isBusy' = IF toIdle THEN FALSE ELSE isBusy
     /\ signals' = IF toIdle THEN Append(signals, "idle") ELSE signals
     /\ readys' = IF toIdle
                  THEN [r \in 1..Len(readys) |->
                          IF r \in idleListeners
                          THEN [readys[r] EXCEPT !.state = "resolved",
                                                 !.sigRes = Len(signals) + 1]
                          ELSE readys[r]]
                  ELSE readys
     /\ idleListeners' = IF toIdle THEN {} ELSE idleListeners
     /\ flushes' = [flushes EXCEPT ![i].state =
                      IF timed THEN "fulfilled" ELSE "rejected",
                                   ![i].err = IF timed THEN "none" ELSE "assert"]
     /\ errorLog' = IF flushes[i].kind = "auto" /\ ~timed
                    THEN Append(errorLog, "assert") ELSE errorLog
     /\ UNCHANGED <<bufferSize, maxConcurrentRequests, entities, bufferCount,
                    t0, requestCount, now, sinkCalls, added>>

\* flush() at its await, the Sink call of flush i having failed: the await
\* throws and the rest of flush() is skipped.
sinkFailed(i) ==
  /\ flushes[i].state = "pending"
  /\ flushes' = [flushes EXCEPT ![i].state = "rejected", ![i].err = "sink"]
  /\ errorLog' = IF flushes[i].kind = "auto"
                 THEN Append(errorLog, "sink") ELSE errorLog
  /\ UNCHANGED <<wvars, now, readys, signals, statsLog, sinkCalls, added>>

\* ------------------------------------------- a free caller of the writer

WriterInit ==
  /\ bufferSize \in 1..MaxBufferSize
  /\ maxConcurrentRequests \in 1..MaxConcurrent
  /\ entities = <<>>
  /\ bufferCount = 0
  /\ concurrentRequests = 0
  /\ isBusy = FALSE
  /\ isTicking = FALSE
  /\ t0 = 0
  /\ elapsed = 0
  /\ requestCount = 0
  /\ idleListeners = {}
  /\ now = 0
  /\ flushes = <<>>
  /\ readys = <<>>
  /\ signals = <<>>
  /\ statsLog = <<>>
  /\ errorLog = <<>>
  /\ sinkCalls = <<>>
  /\ added = <<>>

Init ==
  /\ WriterInit
  /\ srcLines = 0
  /\ srcPos = 0
  /\ lrState = "none"
  /\ nLines = 0
  /\ count = 0
  /\ isPaused = FALSE
  /\ waitingEntity = 0
  /\ waitingReady = 0
  /\ settled = "pending"
  /\ loadErr = "none"
  /\ resolveCalls = 0
  /\ rejectCalls = 0
  /\ failedLines = {}

ExplicitFlushes == {i \in 1..Len(flushes) : flushes[i].kind = "explicit"}

Add ==
  /\ bufferCount < MaxAdds
  /\ add(bufferCount + 1)
  /\ UNCHANGED <<bufferSize, maxConcurrentRequests, elapsed,
                 idleListeners, now, readys, statsLog, pvars>>

Flush ==
  /\ Cardinality(ExplicitFlushes) < MaxFlushCalls
  /\ flush(entities, "explicit")
  /\ UNCHANGED <<bufferSize, maxConcurrentRequests, bufferCount, elapsed,
                 idleListeners, now, readys, statsLog, added, pvars>>

Ready ==
  /\ Len(readys) < MaxReadyCalls
  /\ ready
  /\ UNCHANGED <<bufferSize, maxConcurrentRequests, entities, bufferCount,
                 concurrentRequests, isBusy, isTicking, t0, elapsed,
                 requestCount, now, flushes, signals, statsLog, errorLog,
                 sinkCalls, added, pvars>>

SinkSucceed ==
  \E i \in InFlight : sinkSucceeded(i) /\ UNCHANGED pvars

SinkFail ==
  \E i \in InFlight : sinkFailed(i) /\ UNCHANGED pvars

\* The clock advances.  Only the time between #startTimer and #endTimer is
\* ever read (as a difference), so the clock is let run only while a Sink
\* call is in flight.
Tick ==
  /\ now < MaxTime
  /\ InFlight # {}
  /\ now' = now + 1
  /\ UNCHANGED <<wvars, flushes, readys, signals, statsLog, errorLog,
                 sinkCalls, added, pvars>>

Next == Add \/ Flush \/ Ready \/ SinkSucceed \/ SinkFail \/ Tick

Spec == Init /\ [][Next]_vars

\* Every started Sink call completes, successfully or not.
FairSpec == Init /\ [][Next]_vars /\ WF_vars(SinkSucceed \/ SinkFail)

\* -------------------------------------------------------------- BulkLoader

\* #handleErrorEvent(err), err being an error: #reject is called; a promise
\* settles on the first call only.
handleErrorEvent(err) ==
  /\ rejectCalls' = rejectCalls + 1
  /\ settled' = IF settled = "pending" THEN "rejected" ELSE settled
  /\ loadErr' = IF settled = "pending" THEN err ELSE loadErr
  /\ UNCHANGED resolveCalls

\* #complete(): #resolve is called.
complete ==
  /\ resolveCalls' = resolveCalls + 1
  /\ settled' = IF settled = "pending" THEN "resolved" ELSE settled
  /\ UNCHANGED <<loadErr, rejectCalls>>

noSettle == UNCHANGED <<settled, loadErr, resolveCalls, rejectCalls>>

\* The listener the constructor registers on the writer's 'error': it runs
\* when the writer emits one.
onWriterError ==
  IF Len(errorLog') > Len(errorLog)
  THEN handleErrorEvent(errorLog'[Len(errorLog')])
  ELSE noSettle

\* The reactions .then(() => this.#complete()).catch(err => ...) that
\* #handleEndEvent attaches to its flush(), once flush i has settled.
onEndFlushSettled(i) ==
  IF flushes'[i].state = "fulfilled" THEN complete
  ELSE IF flushes'[i].state = "rejected"
       THEN handleErrorEvent(flushes'[i].err)
       ELSE noSettle

\* The continuation of ready() in #waitForWriter is ready to run.
CallbackDue ==
  waitingReady # 0 /\ readys[waitingReady].state = "resolved"

\* load(): the state once the promise is created, the reader opened and the
\* three listeners registered.
LoadInit ==
  /\ WriterInit
  /\ srcLines \in 0..MaxLines
  /\ nLines \in 0..MaxLimit
  /\ srcPos = 0
  /\ lrState = "flowing"
  /\ count = 0
  /\ isPaused = FALSE
  /\ waitingEntity = 0
  /\ waitingReady = 0
  /\ settled = "pending"
  /\ loadErr = "none"
  /\ resolveCalls = 0
  /\ rejectCalls = 0
  /\ failedLines = {}

\* (mutant) the record limit is tested one record late
LimitReached_Late(n, c) == n > 0 /\ c = n + 1

\* #handleLineEvent: the record limit is set and reached
LimitReached(n, c) == n > 0 /\ c = n

\* (mutant) the pipeline never waits for the writer
MustWait_Never(busy) == FALSE

\* #handleLineEvent: the writer is busy, so the entity waits for ready()
MustWait(busy) == busy

\* 'line': #handleLineEvent.  The entity converted from a line is the line's
\* number; the converter may throw instead.
LineEvent ==
  /\ lrState = "flowing"
  /\ srcPos < srcLines
  /\ ~CallbackDue
  /\ srcPos' = srcPos + 1
  /\ IF LimitReached(nLines, count)
     THEN /\ lrState' = "closed"
          /\ UNCHANGED <<wvars, hvars, srcLines, nLines, count, isPaused,
                         waitingEntity, waitingReady, settled, loadErr,
                         resolveCalls, rejectCalls, failedLines>>
     ELSE /\ count' = count + 1
          /\ \/ /\ failedLines' = failedLines \cup {srcPos + 1}
                /\ handleErrorEvent("conversion")
                /\ UNCHANGED <<entities, bufferCount, flushes, fvars, added,
                               lrState, isPaused, waitingEntity,
                               waitingReady, readys, idleListeners>>
             \/ /\ MustWait(isBusy)
                /\ lrState' = "paused"
                /\ isPaused' = TRUE
                /\ ready
                /\ waitingEntity' = srcPos + 1
                /\ waitingReady' = Len(readys) + 1
                /\ noSettle
                /\ UNCHANGED <<entities, bufferCount, flushes, fvars, added,
                               failedLines>>
             \/ /\ ~MustWait(isBusy)
                /\ add(srcPos + 1)
                /\ onWriterError
                /\ UNCHANGED <<lrState, isPaused, waitingEntity,
                               waitingReady, readys, idleListeners,
                               failedLines>>
          /\ UNCHANGED <<bufferSize, maxConcurrentRequests, elapsed, now,
                         statsLog, srcLines, nLines>>

\* The continuation of ready() in #waitForWriter.
WaiterResume ==
  /\ CallbackDue
  /\ waitingEntity' = 0
  /\ waitingReady' = 0
  /\ IF ~isPaused
     THEN /\ handleErrorEvent("assert")
          /\ UNCHANGED <<entities, bufferCount, flushes, fvars, added,
                         lrState, isPaused>>
     ELSE /\ add(waitingEntity)
          /\ lrState' = IF lrState = "paused" THEN "flowing" ELSE lrState
          /\ isPaused' = FALSE
          /\ onWriterError
  /\ UNCHANGED <<bufferSize, maxConcurrentRequests, elapsed, idleListeners,
                 now, readys, statsLog, srcLines, srcPos, nLines, count,
                 failedLines>>

\* 'end': #handleEndEvent.  The reader ends when it has delivered its last
\* line, or after close(); a paused reader emits nothing.
EndEvent ==
  /\ \/ lrState = "flowing" /\ srcPos = srcLines
     \/ lrState = "closed"
  /\ ~CallbackDue
  /\ lrState' = "ended"
  /\ flush(entities, "explicit")
  /\ onEndFlushSettled(Len(flushes) + 1)
  /\ UNCHANGED <<bufferSize, maxConcurrentRequests, bufferCount, elapsed,
                 idleListeners, now, readys, statsLog, added, srcLines,
                 srcPos, nLines, count, isPaused, waitingEntity,
                 waitingReady, failedLines>>

\* 'error' of the reader: #handleErrorEvent.  A reader that failed reading
\* delivers nothing more.
SourceError ==
  /\ lrState = "flowing"
  /\ ~CallbackDue
  /\ lrState' = "failed"
  /\ handleErrorEvent("source")
  /\ UNCHANGED <<wvars, hvars, srcLines, srcPos, nLines, count, isPaused,
                 waitingEntity, waitingReady, failedLines>>

\* What the pipeline does when flush i settles after its Sink call.
onFlushSettled(i) ==
  IF flushes[i].kind = "explicit" THEN onEndFlushSettled(i)
  ELSE onWriterError

LoadSinkSucceed ==
  \E i \in InFlight :
    /\ ~CallbackDue
    /\ sinkSucceeded(i)
    /\ onFlushSettled(i)
    /\ UNCHANGED <<srcLines, srcPos, lrState, nLines, count, isPaused,
                   waitingEntity, waitingReady, failedLines>>

LoadSinkFail ==
  \E i \in InFlight :
    /\ ~CallbackDue
    /\ sinkFailed(i)
    /\ onFlushSettled(i)
    /\ UNCHANGED <<srcLines, srcPos, lrState, nLines, count, isPaused,
                   waitingEntity, waitingReady, failedLines>>

LoadNext ==
  LineEvent \/ WaiterResume \/ EndEvent \/ SourceError \/ LoadSinkSucceed
    \/ LoadSinkFail \/ Tick

LoadSpec == LoadInit /\ [][LoadNext]_vars

\* ----------------------------------------------------------------- claims

LastFlush == flushes[Len(flushes)]

\* C1: in every reachable state of the writer the count of active write
\* operations lies between 0 and max_concurrent_requests.
C1_ActiveCountInRange ==
  concurrentRequests \in 0..maxConcurrentRequests

\* C2: the Sink calls started and not yet completed never number more than
\* max_concurrent_requests; with a maximum of 1 no Sink call starts while an
\* earlier one is still running.
C2_SinkCallsBounded ==
  /\ Cardinality(InFlight) <= maxConcurrentRequests
  /\ maxConcurrentRequests = 1 =>
       \A i \in InFlight : \A j \in 1..Len(flushes) :
         (j # i /\ flushes[j].call # 0) =>
           (flushes[j].state # "pending" /\ flushes[j].call < flushes[i].call)

C2_Witness ==
  /\ maxConcurrentRequests = 1
  /\ Len(sinkCalls) = 2
  /\ Cardinality(InFlight) = 1

\* C3: when the Sink call of a flush finishes, successfully or not, the
\* active count is decremented once and a stats notification is emitted; a
\* failed call rejects the flush with the Sink's error.
C3_ReleaseAndStatsOnCompletion ==
  [][\A i \in InFlight :
       flushes'[i].state # "pending" =>
         /\ concurrentRequests' = concurrentRequests - 1
         /\ Len(statsLog') = Len(statsLog) + 1
         /\ flushes'[i].err \in {"none", "sink"}]_vars

\* C4: with a maximum of at least 2, a flush of a non-empty buffer made while
\* fewer than the maximum are active starts its Sink call and does not fail.
C4_FlushStartsBelowMax ==
  [][(/\ maxConcurrentRequests >= 2
      /\ ~isBusy
      /\ concurrentRequests < maxConcurrentRequests
      /\ Len(flushes') = Len(flushes) + 1
      /\ LastFlush'.size > 0)
     => (LastFlush'.state = "pending"
         /\ Len(sinkCalls') = Len(sinkCalls) + 1)]_vars

C5_Alternates ==
  \A k \in 1..Len(signals) :
    signals[k] = IF k % 2 = 1 THEN "busy" ELSE "idle"

C5_Edge ==
  LET reaches == /\ concurrentRequests' = concurrentRequests + 1
                 /\ concurrentRequests' = maxConcurrentRequests
      drops   == /\ concurrentRequests' = concurrentRequests - 1
                 /\ concurrentRequests >= maxConcurrentRequests
                 /\ concurrentRequests' < maxConcurrentRequests
  IN /\ reaches => signals' = Append(signals, "busy")
     /\ drops => signals' = Append(signals, "idle")
     /\ (~reaches /\ ~drops) => signals' = signals

\* C5: 'busy' is emitted exactly in the steps in which an acquire brings the
\* active count to the maximum, 'idle' exactly in the steps in which a
\* release brings it below the maximum, nothing is emitted otherwise, and
\* the notifications alternate busy, idle, busy, ...
C5_BusyIdleEdges == []C5_Alternates /\ [][C5_Edge]_vars

C5_Witness == signals = <<"busy", "idle", "busy">>

\* C6: between turns isBusy is true exactly when the number of concurrent
\* requests equals max_concurrent_requests.
C6_BusyIffSaturated ==
  isBusy <=> (concurrentRequests = maxConcurrentRequests)

IdleAfter(k) == {j \in (k + 1)..Len(signals) : signals[j] = "idle"}

\* C7: a ready() future obtained while not busy is resolved at the call; one
\* obtained while busy is resolved exactly at the first 'idle' after the
\* call; futures pending together are resolved by the same 'idle'.
C7_ReadyResolution ==
  /\ \A r \in 1..Len(readys) :
       LET w == readys[r]
       IN /\ ~w.busyAtCall => (w.state = "resolved" /\ w.sigRes = w.sigCall)
          /\ w.busyAtCall =>
               /\ w.state = "resolved" <=> IdleAfter(w.sigCall) # {}
               /\ w.state = "resolved" =>
                    (w.sigRes \in IdleAfter(w.sigCall)
                     /\ \A j \in IdleAfter(w.sigCall) : w.sigRes <= j)
  /\ \A r, q \in 1..Len(readys) :
       (/\ readys[r].busyAtCall /\ readys[q].busyAtCall
        /\ readys[r].sigCall = readys[q].sigCall)
       => (readys[r].state = readys[q].state
           /\ readys[r].sigRes = readys[q].sigRes)

C7_Witness ==
  /\ Len(readys) = 2
  /\ readys[1].busyAtCall /\ readys[2].busyAtCall
  /\ readys[1].state = "resolved" /\ readys[2].state = "resolved"
  /\ readys[1].sigRes = readys[2].sigRes

\* C8: if every started Sink call completes, a busy writer becomes idle
\* again, and every ready() future obtained while busy is resolved.
C8_BusyLeadsToIdle ==
  /\ isBusy ~> ~isBusy
  /\ \A r \in 1..MaxReadyCalls :
       (Len(readys) >= r)
         ~> (Len(readys) >= r /\ readys[r].state = "resolved")

\* C9: a flush() that finds the buffer empty makes no Sink call, emits
\* nothing, leaves the counters, the elapsed time and the busy state as they
\* were, and its future succeeds.
C9_EmptyFlushNoOp ==
  [][(/\ Len(flushes') = Len(flushes) + 1
      /\ LastFlush'.kind = "explicit"
      /\ entities = <<>>)
     => (/\ LastFlush'.state = "fulfilled"
         /\ UNCHANGED <<sinkCalls, statsLog, signals, errorLog, requestCount,
                        elapsed, concurrentRequests, isBusy, isTicking,
                        entities, bufferCount, readys, idleListeners>>)]_vars

C9_Witness ==
  /\ isBusy
  /\ Len(flushes) >= 2
  /\ LastFlush.kind = "explicit"
  /\ LastFlush.size = 0
  /\ LastFlush.state = "fulfilled"

Min(a, b) == IF a < b THEN a ELSE b

\* The first n entities cut into batches of b, the last one shorter when b
\* does not divide n.
ExpectedBatches(n, b) ==
  [k \in 1..((n + b - 1) \div b) |->
     [j \in 1..Min(b, n - (k - 1) * b) |-> (k - 1) * b + j]]

\* The load is over: the source has ended and no Sink call is running.
LoadDone == lrState = "ended" /\ InFlight = {}

SinkFailures == {i \in 1..Len(flushes) : flushes[i].err = "sink"}

\* C10: a load of N records without a record limit in which conversion and
\* every Sink call succeed hands the Sink the records in source order, in floor(N/B)
\* batches of B followed by one batch of N mod B when that is not 0.
C10_BatchesInSourceOrder ==
  (nLines = 0 /\ LoadDone /\ SinkFailures = {} /\ failedLines = {})
    => sinkCalls = ExpectedBatches(srcLines, bufferSize)

AutoFlushes == {i \in 1..Len(flushes) : flushes[i].kind = "auto"}

\* C11: every batch taken by an automatic flush holds exactly buffer_size
\* records, whatever explicit flush() calls are made between the add() calls.
C11_AutoBatchIsFull ==
  \A i \in AutoFlushes : flushes[i].size = bufferSize

\* C12: the buffer never holds more than buffer_size records, and no batch
\* handed to the Sink is larger than buffer_size, also after automatic
\* flushes that failed.
C12_BufferBounded ==
  /\ Len(entities) <= bufferSize
  /\ \A k \in 1..Len(sinkCalls) : Len(sinkCalls[k]) <= bufferSize
  /\ \A i \in 1..Len(flushes) : flushes[i].size <= bufferSize

C12_Witness ==
  /\ \E i \in AutoFlushes : flushes[i].state = "rejected"
  /\ LastFlush.state = "pending"
  /\ LastFlush.size = bufferSize
  /\ Len(sinkCalls) = 2

\* The entities handed to the Sink in some batch.
Delivered ==
  {e \in 1..srcLines :
     \E k \in 1..Len(sinkCalls) : \E j \in 1..Len(sinkCalls[k]) :
       sinkCalls[k][j] = e}

Consumed == {added[k] : k \in 1..Len(added)}

\* C13: at the moment load()'s promise resolves, every record consumed from
\* the source has been handed to the Sink and every Sink call started during
\* the load has completed successfully.
C13_ResolvedMeansCompleted ==
  [][(settled = "pending" /\ settled' = "resolved")
     => (/\ InFlight' = {}
         /\ \A i \in 1..Len(flushes') : flushes'[i].state = "fulfilled"
         /\ Consumed' \subseteq Delivered')]_vars

\* Errors other than a failed Sink call have been raised.
OtherErrors ==
  \/ failedLines # {}
  \/ lrState = "failed"
  \/ \E i \in 1..Len(flushes) : flushes[i].err \in {"assert", "exceeded"}

\* C14: once the Sink call of some batch has failed, load()'s promise is
\* rejected, with that batch's error when no other error came first, and is
\* never resolved.
C14_SinkFailureRejectsLoad ==
  SinkFailures # {} =>
    /\ settled = "rejected"
    /\ ~OtherErrors => loadErr = "sink"

\* C15: once load()'s promise is rejected no Sink call is started.
C15_NoSinkCallAfterFailure ==
  [][settled = "rejected" => Len(sinkCalls') = Len(sinkCalls)]_vars

\* C16: load()'s promise settles once; an error or a completion that comes
\* after it changes nothing and does not call #reject or #resolve again.
C16_SettlesOnce ==
  [][settled # "pending"
     => UNCHANGED <<settled, loadErr, rejectCalls, resolveCalls>>]_vars

FirstN(n) == [k \in 1..n |-> k]

\* A record limit is set and the source holds more records than that.
Limited == nLines > 0 /\ srcLines > nLines

\* C17: with a record limit L and a source of more than L records, the
\* pipeline consumes the first L records and no more, closes the reader when
\* record L + 1 arrives, and the final flush takes what is still buffered;
\* with L below buffer_size and no conversion failure that is one Sink call
\* carrying exactly the L records.
C17_LimitStopsTheSource ==
  Limited =>
    /\ count <= nLines
    /\ Consumed \subseteq 1..nLines
    /\ lrState \in {"closed", "ended"} =>
         /\ count = nLines
         /\ srcPos = nLines + 1
         /\ Consumed = (1..nLines) \ failedLines
         /\ Len(added) = nLines - Cardinality(failedLines)
    /\ lrState = "ended" =>
         /\ entities = <<>>
         /\ \E i \in ExplicitFlushes : flushes[i].size = Len(added) % bufferSize
    /\ (lrState = "ended" /\ nLines < bufferSize /\ failedLines = {}) =>
         sinkCalls = <<FirstN(nLines)>>

C17_Witness ==
  /\ Limited
  /\ nLines = 1
  /\ bufferSize = 2
  /\ lrState = "ended"
  /\ sinkCalls = <<FirstN(1)>>
  /\ settled = "resolved"

RECURSIVE SumElapsed(_)
SumElapsed(log) ==
  IF log = <<>> THEN 0 ELSE Head(log).elapsed + SumElapsed(Tail(log))

\* A step in which flush() is called, by add() or by the caller.
FlushCalled == Len(flushes') = Len(flushes) + 1

C18_Monotone ==
  /\ requestCount' >= requestCount
  /\ elapsed' >= elapsed
  /\ ~FlushCalled => requestCount' = requestCount

HeldOutside == (1..count) \ (Consumed \cup failedLines)

C19_State ==
  /\ CallbackDue => isPaused
  /\ waitingEntity # 0 =>
       /\ lrState = "paused"
       /\ isPaused
       /\ waitingReady # 0
       /\ waitingEntity = srcPos
  /\ HeldOutside = IF waitingEntity # 0 THEN {waitingEntity} ELSE {}
  /\ \A j, k \in 1..Len(added) : j < k => added[j] < added[k]

C19_Step ==
  /\ Len(added') # Len(added) =>
       /\ ~isBusy
       /\ Len(added') = Len(added) + 1
  /\ lrState = "paused" =>
       /\ srcPos' = srcPos
       /\ count' = count
  /\ (lrState = "paused" /\ lrState' # "paused") =>
       /\ lrState' = "flowing"
       /\ readys[waitingReady].state = "resolved"
       /\ added' = Append(added, waitingEntity)
       /\ waitingEntity' = 0

\* C19: the pipeline calls add() only while the writer is not busy; a record
\* that arrives while the writer is busy pauses the source, no record is
\* delivered while it is paused, the one waiting record is added once its
\* ready() has resolved and only then does the source resume; at most one
\* converted record is held outside the writer, the paused flag is set
\* whenever the resume step runs, and records are added in source order.
C19_AddsOnlyWhenNotBusy == []C19_State /\ [][C19_Step]_vars

C19_Witness ==
  /\ Len(readys) >= 1
  /\ readys[1].state = "resolved"
  /\ waitingReady = 0
  /\ ~isPaused
  /\ lrState = "flowing"
  /\ Len(added) >= 2
  /\ settled = "pending"

\* C20: no flush of the pipeline, automatic or final, fails with 'exceeded
\* maximum number of concurrent requests': whenever the pipeline flushes a
\* non-empty buffer the active count is below the maximum.
C20_PipelineNeverExceeds ==
  /\ [](/\ \A i \in 1..Len(flushes) : flushes[i].err # "exceeded"
        /\ \A k \in 1..Len(errorLog) : errorLog[k] # "exceeded"
        /\ loadErr # "exceeded")
  /\ [][(FlushCalled /\ LastFlush'.size > 0) =>
          concurrentRequests < maxConcurrentRequests]_vars

C20_Witness ==
  /\ AutoFlushes # {}
  /\ SinkFailures # {}
  /\ \E i \in ExplicitFlushes : flushes[i].size > 0
  /\ concurrentRequests = maxConcurrentRequests

=============================================================================
